---- MODULE Spec2Model ----
(***************************************************************************)
(* Model of the bencode decoder of src/bencode/src/main.rs: the two leaf   *)
(* decoders decode_int and decode_bytestr (pure functions, modelled as     *)
(* operators that run the source's loops) and the scope-stack scan loop of *)
(* decode (one action per match arm).                                      *)
(*                                                                         *)
(* A buffer is a sequence of bytes (0..255); offsets are 0-based as in the *)
(* source, so the byte at offset p is enc_str[p + 1] of the sequence.      *)
(***************************************************************************)
EXTENDS Integers, Sequences, FiniteSets, TLC

\* ------------------------------------------------------------------------
\* Bytes the source matches on
\* ------------------------------------------------------------------------
B_i == 105
B_e == 101
B_l == 108
B_d == 100
B_minus == 45
B_colon == 58
B_0 == 48
B_9 == 57
\* bytes that no match arm names: a letter and a non-text byte
B_B == 66
B_AA == 170

\* ------------------------------------------------------------------------
\* Bounds of the checked inputs
\* ------------------------------------------------------------------------
MaxIntLen == 5
MaxStrLen == 5
MaxBufLen == 4
MaxStart == 1
MaxTokens == 5

VARIABLES
    buf,              \* the input buffer (enc_str / buf)
    start_pos,        \* start offset handed to a leaf decoder
    overflow_checks,  \* build profile: TRUE = arithmetic overflow panics,
                      \* FALSE = it wraps (two's complement)
    pc,               \* "call" | "scan" | "done"
    pos,              \* decode's cursor
    stack,            \* decode's scope stack, bottom first
    iters,            \* scan-loop iterations already completed
    result            \* what the call returned (or how it aborted)

vars == <<buf, start_pos, overflow_checks, pc, pos, stack, iters, result>>

\* ------------------------------------------------------------------------
\* Results
\* ------------------------------------------------------------------------
NoResult == [tag |-> "None"]
Ok(v, n) == [tag |-> "Ok", value |-> v, consumed |-> n]
Err(k, p) == [tag |-> "Err", kind |-> k, off |-> p]
ErrTok(p, c) == [tag |-> "Err", kind |-> "InvalidToken", off |-> p, ch |-> c]
Panic(w, p) == [tag |-> "Panic", why |-> w, off |-> p]

\* enc_str[p] for an offset the caller has checked against the length
At(enc_str, p) == enc_str[p + 1]

IsDigit(c) == c >= B_0 /\ c <= B_9

\* ------------------------------------------------------------------------
\* i32 arithmetic (value: i32), computed on 16-bit halves so that no
\* intermediate leaves the 32-bit range
\* ------------------------------------------------------------------------
I32_MIN == -2147483647 - 1

\* the high half of v * 10 + d before it is reduced to 16 bits
I32Hi(v, d) == (v \div 65536) * 10 + (((v % 65536) * 10 + d) \div 65536)

\* v * 10 + d leaves the i32 range
I32MulAddOverflows(v, d) == I32Hi(v, d) < -32768 \/ I32Hi(v, d) > 32767

\* v * 10 + d modulo 2^32, as a signed value
I32MulAddWrapped(v, d) ==
    (((I32Hi(v, d) + 32768) % 65536) - 32768) * 65536
        + (((v % 65536) * 10 + d) % 65536)

\* value * sign with sign in {1, -1}
I32MulSignOverflows(v, s) == s = -1 /\ v = I32_MIN
I32MulSignWrapped(v, s) == IF s = 1 \/ v = I32_MIN THEN v ELSE -v

\* ------------------------------------------------------------------------
\* decode_int
\* ------------------------------------------------------------------------
\* the leading-zero test of the digit arm
IntLeadingZero(start, p, value) == p - start > 2 /\ value = 0

\* the empty-magnitude test of the 'e' arm
IntEmpty(start, p) == p - start <= 1

RECURSIVE int_loop(_, _, _, _, _, _)
int_loop(enc_str, start, p, started, value, sign) ==
    IF p >= Len(enc_str)
    THEN Err("NoEndToken", p)
    ELSE LET c == At(enc_str, p) IN
         CASE c = B_i ->
                IF started
                THEN Err("DuplicateStartToken", p)
                ELSE int_loop(enc_str, start, p + 1, TRUE, value, sign)
           [] IsDigit(c) ->
                IF IntLeadingZero(start, p, value)
                THEN Err("LeadingZero", p)
                ELSE IF I32MulAddOverflows(value, c - B_0) /\ overflow_checks
                THEN Panic("attempt to multiply/add with overflow", p)
                ELSE int_loop(enc_str, start, p + 1, started,
                              I32MulAddWrapped(value, c - B_0), sign)
           [] c = B_minus ->
                IF sign = -1
                THEN ErrTok(p, c)
                ELSE int_loop(enc_str, start, p + 1, started, value, -1)
           [] c = B_e ->
                IF IntEmpty(start, p)
                THEN Err("Empty", p)
                ELSE IF I32MulSignOverflows(value, sign) /\ overflow_checks
                THEN Panic("attempt to multiply with overflow", p)
                ELSE Ok(I32MulSignWrapped(value, sign), p + 1 - start)
           [] OTHER -> ErrTok(p, c)

decode_int_relative(enc_str, start) ==
    LET r == int_loop(enc_str, start, start, FALSE, 0, 1) IN
    IF r.tag = "Err" THEN [r EXCEPT !.off = r.off - start] ELSE r
decode_int(enc_str, start) == int_loop(enc_str, start, start, FALSE, 0, 1)

\* ------------------------------------------------------------------------
\* usize arithmetic (str_sz: usize, 64 bits).  A usize is kept as its
\* decimal digits, most significant first, without leading zeros (<<>> is
\* 0), so that lengths near 2^64 can be decoded digit by digit.
\* ------------------------------------------------------------------------
USIZE_MAX == <<1,8,4,4,6,7,4,4,0,7,3,7,0,9,5,5,1,6,1,5>>
USIZE_MOD == <<1,8,4,4,6,7,4,4,0,7,3,7,0,9,5,5,1,6,1,6>>

RECURSIVE BigNorm(_)
BigNorm(a) == IF a # <<>> /\ Head(a) = 0 THEN BigNorm(Tail(a)) ELSE a

RECURSIVE BigPad(_, _)
BigPad(a, n) == IF Len(a) >= n THEN a ELSE BigPad(<<0>> \o a, n)

RECURSIVE BigGtFrom(_, _, _)
BigGtFrom(a, b, k) ==
    IF k > Len(a) THEN FALSE
    ELSE IF a[k] # b[k] THEN a[k] > b[k]
    ELSE BigGtFrom(a, b, k + 1)

\* a > b for normalised a, b
BigGt(a, b) ==
    IF Len(a) # Len(b) THEN Len(a) > Len(b) ELSE BigGtFrom(a, b, 1)

RECURSIVE BigSubDigits(_, _, _, _)
BigSubDigits(a, b, k, borrow) ==
    IF k = 0 THEN <<>>
    ELSE LET t == a[k] - b[k] - borrow IN
         Append(BigSubDigits(a, b, k - 1, IF t < 0 THEN 1 ELSE 0),
                IF t < 0 THEN t + 10 ELSE t)

\* a - b for normalised a >= b
BigSub(a, b) == BigNorm(BigSubDigits(a, BigPad(b, Len(a)), Len(a), 0))

RECURSIVE BigMod(_)
BigMod(a) == IF BigGt(a, USIZE_MAX) THEN BigMod(BigSub(a, USIZE_MOD)) ELSE a

RECURSIVE BigToInt(_)
BigToInt(a) == IF a = <<>> THEN 0 ELSE BigToInt(SubSeq(a, 1, Len(a) - 1)) * 10 + a[Len(a)]

\* a usize that certainly exceeds every buffer length of the model
BigIsHuge(a) == Len(a) > 9

\* str_sz * 10 + digit
UsizeMulAdd(sz, d) == BigNorm(Append(sz, d))
UsizeMulAddOverflows(sz, d) == BigGt(UsizeMulAdd(sz, d), USIZE_MAX)
UsizeMulAddWrapped(sz, d) == BigMod(UsizeMulAdd(sz, d))

\* pos + str_sz for a small pos: overflows iff USIZE_MAX - str_sz < pos
UsizeAddOverflows(p, sz) ==
    BigIsHuge(sz) /\ ~BigIsHuge(BigSub(USIZE_MAX, sz))
                  /\ BigToInt(BigSub(USIZE_MAX, sz)) < p
\* pos + str_sz modulo 2^64 when it overflows (a value below pos)
UsizeAddWrapped(p, sz) == p - BigToInt(BigSub(USIZE_MAX, sz)) - 1

\* ------------------------------------------------------------------------
\* decode_bytestr
\* ------------------------------------------------------------------------
\* the leading-zero test of the digit arm
StrLeadingZero(enc_str, start, p, sz) ==
    At(enc_str, p) = B_0 /\ sz = <<>> /\ start # p

\* enc_str[from..to].to_vec()
slice_short(enc_str, from, to) == SubSeq(enc_str, from + 1, to - 1)
slice(enc_str, from, to) == SubSeq(enc_str, from + 1, to)

\* Step 2 of decode_bytestr once end = pos + str_sz is known
bytestr_take(enc_str, start, p, end) ==
    IF end > Len(enc_str)
    THEN Err("ByteStrEOF", p)
    ELSE IF p > end
    THEN Panic("slice index starts after its end", p)
    ELSE Ok(slice(enc_str, p, end), end - start)

\* Step 2 of decode_bytestr: the payload after the colon at offset p - 1
bytestr_payload(enc_str, start, p, sz) ==
    IF sz = <<>>
    THEN Ok(<<>>, p - start)
    ELSE IF UsizeAddOverflows(p, sz)
    THEN IF overflow_checks
         THEN Panic("attempt to add with overflow", p)
         ELSE bytestr_take(enc_str, start, p, UsizeAddWrapped(p, sz))
    ELSE IF BigIsHuge(sz)
    THEN Err("ByteStrEOF", p)
    ELSE bytestr_take(enc_str, start, p, p + BigToInt(sz))

\* Step 1 of decode_bytestr: the length prefix
RECURSIVE bytestr_loop(_, _, _, _)
bytestr_loop(enc_str, start, p, sz) ==
    IF p >= Len(enc_str)
    THEN Err("InvalidLength", p)
    ELSE LET c == At(enc_str, p) IN
         CASE IsDigit(c) ->
                IF StrLeadingZero(enc_str, start, p, sz)
                THEN Err("LeadingZero", p)
                ELSE IF UsizeMulAddOverflows(sz, c - B_0) /\ overflow_checks
                THEN Panic("attempt to multiply/add with overflow", p)
                ELSE bytestr_loop(enc_str, start, p + 1,
                                  UsizeMulAddWrapped(sz, c - B_0))
           [] c = B_colon -> bytestr_payload(enc_str, start, p + 1, sz)
           [] OTHER -> ErrTok(p, c)

decode_bytestr(enc_str, start) == bytestr_loop(enc_str, start, start, <<>>)

\* ------------------------------------------------------------------------
\* Inputs
\* ------------------------------------------------------------------------
B_1 == 49

\* all buffers of at most n bytes over the alphabet A
BufsUpTo(A, n) == UNION {[1..k -> A] : k \in 0..n}

\* the bytes of a run of decimal digits
DigitBytes(ds) == [k \in 1..Len(ds) |-> B_0 + ds[k]]

IntText(neg, ds) ==
    <<B_i>> \o (IF neg THEN <<B_minus>> ELSE <<>>) \o DigitBytes(ds) \o <<B_e>>

\* magnitudes around the ends of the i32 range, and sample digit runs
IntBoundaryDigits ==
    { <<2,1,4,7,4,8,3,6,4,7>>, <<2,1,4,7,4,8,3,6,4,8>>,
      <<2,1,4,7,4,8,3,6,4,9>>, <<1,2,3,4,5,6,7,8,9,0>>,
      <<4,2,9,4,9,6,7,2,9,6>>, <<4,2,9,4,9,6,7,2,9,7>>,
      <<2,1,4,7,4,8,3,6,4>>, <<4,2,0>>, <<6,9>>,
      <<0,4,2>>, <<0,5>>, <<4,2,9,4,9,6,7,2,9,6,0>>,
      <<9,9,9,9,9,9,9,9,9,9,9,9>> }

IntBoundaryTexts ==
    {IntText(neg, ds) : neg \in BOOLEAN, ds \in IntBoundaryDigits}

IntAlphabet == {B_i, B_e, B_minus, B_0, B_1, B_B}

IntInputs ==
    BufsUpTo(IntAlphabet, MaxIntLen)
        \cup {pad \o t : pad \in {<<>>, <<B_B>>}, t \in IntBoundaryTexts}

\* ------------------------------------------------------------------------
\* decode_int applied to every input
\* ------------------------------------------------------------------------
InitInt ==
    /\ buf \in IntInputs
    /\ start_pos \in 0..MaxStart
    /\ start_pos <= Len(buf)
    /\ overflow_checks \in BOOLEAN
    /\ pc = "int_call"
    /\ pos = 0
    /\ stack = <<>>
    /\ iters = 0
    /\ result = NoResult

CallDecodeInt ==
    /\ pc = "int_call"
    /\ result' = decode_int(buf, start_pos)
    /\ pc' = "int_done"
    /\ UNCHANGED <<buf, start_pos, overflow_checks, pos, stack, iters>>

NextInt == CallDecodeInt

SpecInt == InitInt /\ [][NextInt]_vars

\* ------------------------------------------------------------------------
\* decode_bytestr applied to every input
\* ------------------------------------------------------------------------
B_2 == 50

StrText(ds, payload) == DigitBytes(ds) \o <<B_colon>> \o payload

\* declared lengths of two digits, and around the end of the usize range
StrBoundaryTexts ==
    { StrText(<<1,0>>, <<B_AA, 0, 255, B_colon, B_e, B_i, B_0, B_B, B_l, B_d>>),
      StrText(<<1,0>>, <<B_AA, 0, 255, B_colon, B_e, B_i, B_0, B_B, B_l>>),
      StrText(<<1,0>>, <<B_AA, 0, 255, B_colon, B_e, B_i, B_0, B_B, B_l, B_d, B_e>>),
      StrText(<<1,8,4,4,6,7,4,4,0,7,3,7,0,9,5,5,1,6,1,5>>, <<>>),
      StrText(<<1,8,4,4,6,7,4,4,0,7,3,7,0,9,5,5,1,6,1,5>>, <<B_B>>),
      StrText(<<1,8,4,4,6,7,4,4,0,7,3,7,0,9,5,5,1,6,1,6>>, <<B_B>>),
      StrText(<<1,8,4,4,6,7,4,4,0,7,3,7,0,9,5,5,1,6,1,7>>, <<B_B>>),
      StrText(<<1,8,4,4,6,7,4,4,0,7,3,7,0,9,5,5,1,5,0,0>>, <<B_B>>),
      StrText(<<9,9,9,9,9,9,9,9,9,9,9,9,9,9,9,9,9,9,9,9>>, <<B_B>>),
      StrText(<<1,2,3,4,5,6,7,8,9,0>>, <<B_B>>) }

StrAlphabet == {B_0, B_1, B_2, B_colon, B_B, B_AA}

StrInputs ==
    BufsUpTo(StrAlphabet, MaxStrLen)
        \cup {pad \o t : pad \in {<<>>, <<B_B>>}, t \in StrBoundaryTexts}

InitStr ==
    /\ buf \in StrInputs
    /\ start_pos \in 0..MaxStart
    /\ start_pos <= Len(buf)
    /\ overflow_checks \in BOOLEAN
    /\ pc = "str_call"
    /\ pos = 0
    /\ stack = <<>>
    /\ iters = 0
    /\ result = NoResult

CallDecodeByteStr ==
    /\ pc = "str_call"
    /\ result' = decode_bytestr(buf, start_pos)
    /\ pc' = "str_done"
    /\ UNCHANGED <<buf, start_pos, overflow_checks, pos, stack, iters>>

NextStr == CallDecodeByteStr

SpecStr == InitStr /\ [][NextStr]_vars

\* ------------------------------------------------------------------------
\* decode: values, scopes and the scan loop
\* ------------------------------------------------------------------------
VInt(v) == [t |-> "Int", v |-> v]
VByteStr(v) == [t |-> "ByteStr", v |-> v]
VList(items) == [t |-> "List", v |-> items]
VDict(m) == [t |-> "Dict", v |-> m]

Scope(stype, items) == [stype |-> stype, items |-> items]

OkValues_initial_ret(items) == [tag |-> "Ok", values |-> <<>>]
OkValues(items) == [tag |-> "Ok", values |-> items]

\* stack.last_mut().unwrap().items.push(v)
push_item(st, v) ==
    [st EXCEPT ![Len(st)].items = Append(st[Len(st)].items, v)]

\* stack.push(scope)
push_scope(st, stype) == Append(st, Scope(stype, <<>>))

\* the stack after stack.pop()
popped(st) == SubSeq(st, 1, Len(st) - 1)

\* BTreeMap::insert
map_insert(m, key, val) ==
    [k \in DOMAIN m \cup {key} |-> IF k = key THEN val ELSE m[k]]

EmptyMap == [k \in {} |-> NoResult]

\* the while-let loop over the pairs of a dict scope's items
RECURSIVE dict_fold_first_wins(_, _, _)
dict_fold_first_wins(items, k, m) ==
    IF k + 1 > Len(items) THEN m
    ELSE dict_fold_first_wins(items, k + 2,
                   IF items[k].t = "ByteStr" /\ items[k].v \notin DOMAIN m
                   THEN map_insert(m, items[k].v, items[k + 1])
                   ELSE m)
RECURSIVE dict_fold_any_key(_, _, _)
dict_fold_any_key(items, k, m) ==
    IF k + 1 > Len(items) THEN m
    ELSE dict_fold_any_key(items, k + 2,
                   map_insert(m, IF items[k].t = "ByteStr" THEN items[k].v
                                 ELSE <<>>, items[k + 1]))
RECURSIVE dict_fold(_, _, _)
dict_fold(items, k, m) ==
    IF k + 1 > Len(items) THEN m
    ELSE dict_fold(items, k + 2,
                   IF items[k].t = "ByteStr"
                   THEN map_insert(m, items[k].v, items[k + 1])
                   ELSE m)

DecodeAlphabet == {B_i, B_e, B_l, B_d, B_0, B_1, B_colon}

\* long leaves inside and outside a list
DecodeBoundaryTexts ==
    LET leaves == { IntText(FALSE, <<2,1,4,7,4,8,3,6,4,7>>),
                    IntText(FALSE, <<2,1,4,7,4,8,3,6,4,8>>),
                    IntText(TRUE, <<2,1,4,7,4,8,3,6,4,8>>),
                    StrText(<<1,8,4,4,6,7,4,4,0,7,3,7,0,9,5,5,1,6,1,5>>, <<>>),
                    StrText(<<1,8,4,4,6,7,4,4,0,7,3,7,0,9,5,5,1,6,1,7>>, <<B_B>>),
                    StrText(<<1,0>>, <<B_AA, 0, 255, B_colon, B_e, B_i, B_0, B_B, B_l, B_d>>) }
    IN leaves \cup {<<B_l>> \o t \o <<B_e>> : t \in leaves}

\* the buffers of the source's decode tests and of the spec's examples
SourceTestInputs ==
    {
      \* d3:heyi69ee
      <<100, 51, 58, 104, 101, 121, 105, 54, 57, 101, 101>>,
      \* d3:heyi69e
      <<100, 51, 58, 104, 101, 121, 105, 54, 57, 101>>,
      \* d3:heyd3:food3:bari420eeee
      <<100, 51, 58, 104, 101, 121, 100, 51, 58, 102, 111, 111, 100, 51,
      58, 98, 97, 114, 105, 52, 50, 48, 101, 101, 101, 101>>,
      \* d4:userld4:name4:John3:agei30e6:scoresli100eli95ei88eeeee4:metad5:admin0:1:11:y6:active1:1ee
      <<100, 52, 58, 117, 115, 101, 114, 108, 100, 52, 58, 110, 97, 109,
      101, 52, 58, 74, 111, 104, 110, 51, 58, 97, 103, 101, 105, 51, 48,
      101, 54, 58, 115, 99, 111, 114, 101, 115, 108, 105, 49, 48, 48,
      101, 108, 105, 57, 53, 101, 105, 56, 56, 101, 101, 101, 101, 101,
      52, 58, 109, 101, 116, 97, 100, 53, 58, 97, 100, 109, 105, 110,
      48, 58, 49, 58, 49, 49, 58, 121, 54, 58, 97, 99, 116, 105, 118,
      101, 49, 58, 49, 101, 101>>,
      \* li420ei69ee
      <<108, 105, 52, 50, 48, 101, 105, 54, 57, 101, 101>>,
      \* llli420eeee
      <<108, 108, 108, 105, 52, 50, 48, 101, 101, 101, 101>>,
      \* lli420el3:heyeel5:Helloee
      <<108, 108, 105, 52, 50, 48, 101, 108, 51, 58, 104, 101, 121, 101,
      101, 108, 53, 58, 72, 101, 108, 108, 111, 101, 101>>,
      \* 5:admin0:3:hey10:abcdefghij
      <<53, 58, 97, 100, 109, 105, 110, 48, 58, 51, 58, 104, 101, 121,
      49, 48, 58, 97, 98, 99, 100, 101, 102, 103, 104, 105, 106>> }

\* buffers made of whole tokens: scope sigils and short leaves
Tokens ==
    { <<B_l>>, <<B_d>>, <<B_e>>, <<B_i, B_1, B_e>>,
      <<B_1, B_colon, B_0>>, <<B_1, B_colon, B_1>> }

RECURSIVE Flatten(_)
Flatten(ts) == IF ts = <<>> THEN <<>> ELSE Head(ts) \o Flatten(Tail(ts))

TokenBufs(n) == {Flatten(ts) : ts \in BufsUpTo(Tokens, n)}

\* integer texts, well-formed or not, at several offsets and depths
IntErrorInputs ==
    {pre \o <<B_i>> \o t :
        pre \in {<<>>, <<B_l>>, <<B_0, B_colon>>, <<B_d, B_1, B_colon, B_B>>},
        t \in BufsUpTo(IntAlphabet, MaxIntLen - 1)}

\* a byte that starts no value, at several offsets and depths
StrayByteInputs ==
    {pre \o <<c>> \o post :
        pre \in {<<>>, <<B_l>>, <<B_d, B_0, B_colon>>, <<B_l, B_d, B_l>>,
                 <<B_i, B_1, B_e>>},
        c \in {B_minus, B_colon, B_B, B_AA},
        post \in {<<>>, <<B_e>>, <<B_i, B_1, B_e>>}}

\* dicts with a repeated key, keys out of order and a non-string key
DictSamples ==
    { \* d1:1i1e1:0i1e1:11:0e
      <<B_d, B_1, B_colon, B_1, B_i, B_1, B_e, B_1, B_colon, B_0, B_i, B_1,
        B_e, B_1, B_colon, B_1, B_1, B_colon, B_0, B_e>>,
      \* di1ei2ee
      <<B_d, B_i, B_1, B_e, B_i, B_2, B_e, B_e>>,
      \* dlei1e1:Bi0ee
      <<B_d, B_l, B_e, B_i, B_1, B_e, B_1, B_colon, B_B, B_i, B_0, B_e, B_e>> }

\* lists nested inside one another, up to MaxTokens deep
NestedLists ==
    {[k \in 1..(2 * n) |-> IF k <= n THEN B_l ELSE B_e] : n \in 1..MaxTokens}

DecodeInputs ==
    BufsUpTo(DecodeAlphabet, MaxBufLen) \cup DecodeBoundaryTexts
        \cup SourceTestInputs \cup TokenBufs(MaxTokens)
        \cup IntErrorInputs \cup StrayByteInputs \cup DictSamples
        \cup NestedLists

InitDecode ==
    /\ buf \in DecodeInputs
    /\ start_pos = 0
    /\ overflow_checks \in BOOLEAN
    /\ pc = "scan"
    /\ pos = 0
    /\ stack = <<Scope("Root", <<>>)>>
    /\ iters = 0
    /\ result = NoResult

Scanning == pc = "scan" /\ pos < Len(buf)

\* a leaf decoder returned r; v is the value to push on success
leaf_done(r, v) ==
    IF r.tag = "Ok"
    THEN IF stack = <<>>
         THEN /\ result' = Panic("unwrap on None", pos)
              /\ pc' = "done"
              /\ UNCHANGED <<pos, stack, iters>>
         ELSE /\ stack' = push_item(stack, v)
              /\ pos' = pos + r.consumed
              /\ iters' = iters + 1
              /\ UNCHANGED <<pc, result>>
    ELSE /\ result' = r
         /\ pc' = "done"
         /\ UNCHANGED <<pos, stack, iters>>

ScanInt ==
    /\ Scanning
    /\ At(buf, pos) = B_i
    /\ LET r == decode_int(buf, pos) IN
         leaf_done(r, IF r.tag = "Ok" THEN VInt(r.value) ELSE NoResult)
    /\ UNCHANGED <<buf, start_pos, overflow_checks>>

ScanByteStr ==
    /\ Scanning
    /\ IsDigit(At(buf, pos))
    /\ LET r == decode_bytestr(buf, pos) IN
         leaf_done(r, IF r.tag = "Ok" THEN VByteStr(r.value) ELSE NoResult)
    /\ UNCHANGED <<buf, start_pos, overflow_checks>>

ScanListStart ==
    /\ Scanning
    /\ At(buf, pos) = B_l
    /\ stack' = push_scope(stack, "List")
    /\ pos' = pos + 1
    /\ iters' = iters + 1
    /\ UNCHANGED <<buf, start_pos, overflow_checks, pc, result>>

ScanDictStart ==
    /\ Scanning
    /\ At(buf, pos) = B_d
    /\ stack' = push_scope(stack, "Dict")
    /\ pos' = pos + 1
    /\ iters' = iters + 1
    /\ UNCHANGED <<buf, start_pos, overflow_checks, pc, result>>

\* the 'e' arm with a List scope popped: fold it into the new top frame
close_list_flat(items, rest) ==
    IF rest = <<>>
    THEN /\ result' = Panic("unwrap on None", pos)
         /\ pc' = "done"
         /\ stack' = rest
         /\ UNCHANGED <<pos, iters>>
    ELSE /\ stack' = [rest EXCEPT ![Len(rest)].items = @ \o items]
         /\ pos' = pos + 1
         /\ iters' = iters + 1
         /\ UNCHANGED <<pc, result>>
close_list(items, rest) ==
    IF rest = <<>>
    THEN /\ result' = Panic("unwrap on None", pos)
         /\ pc' = "done"
         /\ stack' = rest
         /\ UNCHANGED <<pos, iters>>
    ELSE /\ stack' = push_item(rest, VList(items))
         /\ pos' = pos + 1
         /\ iters' = iters + 1
         /\ UNCHANGED <<pc, result>>

\* the item-count test of the Dict arm
dict_unpaired_never(items) == FALSE
dict_unpaired(items) == Len(items) % 2 # 0

\* the 'e' arm with a Dict scope popped: pair the items up into a map
close_dict(items, rest) ==
    IF dict_unpaired(items)
    THEN /\ result' = Err("InvalidDict", pos)
         /\ pc' = "done"
         /\ stack' = rest
         /\ UNCHANGED <<pos, iters>>
    ELSE IF rest = <<>>
    THEN /\ result' = Panic("unwrap on None", pos)
         /\ pc' = "done"
         /\ stack' = rest
         /\ UNCHANGED <<pos, iters>>
    ELSE /\ stack' = push_item(rest, VDict(dict_fold(items, 1, EmptyMap)))
         /\ pos' = pos + 1
         /\ iters' = iters + 1
         /\ UNCHANGED <<pc, result>>

\* the 'e' arm with the Root scope popped: return the error
close_root_continue(rest) ==
    /\ stack' = rest
    /\ pos' = pos + 1
    /\ iters' = iters + 1
    /\ UNCHANGED <<pc, result>>
close_root_unclosed(rest) ==
    /\ result' = Err("NoEndToken", pos)
    /\ pc' = "done"
    /\ stack' = rest
    /\ UNCHANGED <<pos, iters>>
close_root(rest) ==
    /\ result' = Err("InvalidEndToken", pos)
    /\ pc' = "done"
    /\ stack' = rest
    /\ UNCHANGED <<pos, iters>>

\* the 'e' arm: stack.pop().unwrap() and the match on the popped scope
ScanEnd ==
    /\ Scanning
    /\ At(buf, pos) = B_e
    /\ IF stack = <<>>
       THEN /\ result' = Panic("unwrap on None", pos)
            /\ pc' = "done"
            /\ UNCHANGED <<pos, stack, iters>>
       ELSE LET top == stack[Len(stack)]
                rest == popped(stack)
            IN
            CASE top.stype = "List" -> close_list(top.items, rest)
              [] top.stype = "Dict" -> close_dict(top.items, rest)
              [] top.stype = "Root" -> close_root(rest)
    /\ UNCHANGED <<buf, start_pos, overflow_checks>>

ScanInvalid_skip ==
    /\ Scanning
    /\ LET c == At(buf, pos) IN
         /\ c \notin {B_i, B_l, B_d, B_e}
         /\ ~IsDigit(c)
    /\ pos' = pos + 1
    /\ iters' = iters + 1
    /\ UNCHANGED <<buf, start_pos, overflow_checks, pc, stack, result>>
ScanInvalid ==
    /\ Scanning
    /\ LET c == At(buf, pos) IN
         /\ c \notin {B_i, B_l, B_d, B_e}
         /\ ~IsDigit(c)
         /\ result' = ErrTok(pos, c)
    /\ pc' = "done"
    /\ UNCHANGED <<buf, start_pos, overflow_checks, pos, stack, iters>>

\* after the loop: the unclosed-scope test and the final pop
Finish_any_depth ==
    /\ pc = "scan"
    /\ pos >= Len(buf)
    /\ IF stack = <<>>
       THEN /\ result' = Panic("unwrap on None", pos)
            /\ UNCHANGED stack
       ELSE /\ result' = OkValues(stack[Len(stack)].items)
            /\ stack' = popped(stack)
    /\ pc' = "done"
    /\ UNCHANGED <<buf, start_pos, overflow_checks, pos, iters>>
Finish ==
    /\ pc = "scan"
    /\ pos >= Len(buf)
    /\ IF Len(stack) > 1
       THEN /\ result' = Err("NoEndToken", pos)
            /\ UNCHANGED stack
       ELSE IF stack = <<>>
       THEN /\ result' = Panic("unwrap on None", pos)
            /\ UNCHANGED stack
       ELSE /\ result' = OkValues(stack[Len(stack)].items)
            /\ stack' = popped(stack)
    /\ pc' = "done"
    /\ UNCHANGED <<buf, start_pos, overflow_checks, pos, iters>>

Next ==
    \/ ScanInt
    \/ ScanByteStr
    \/ ScanListStart
    \/ ScanDictStart
    \/ ScanEnd
    \/ ScanInvalid
    \/ Finish

Spec == InitDecode /\ [][Next]_vars

\* ========================================================================
\* Properties
\* ========================================================================
\* the grammar, read off the buffer independently of the decoders
RECURSIVE DigitRunEnd(_, _)
DigitRunEnd(b, p) ==
    IF p < Len(b) /\ IsDigit(At(b, p)) THEN DigitRunEnd(b, p + 1) ELSE p

ByteIs(b, p, c) == p < Len(b) /\ At(b, p) = c

\* the digits at offsets from..to-1 as numbers
DigitsOf(b, from, to) == [k \in 1..(to - from) |-> At(b, from + k - 1) - B_0]

IntDigitsFrom(b, s) == IF ByteIs(b, s + 1, B_minus) THEN s + 2 ELSE s + 1
IntDigitsTo(b, s) == DigitRunEnd(b, IntDigitsFrom(b, s))
IntNeg(b, s) == ByteIs(b, s + 1, B_minus)
IntDigits(b, s) == DigitsOf(b, IntDigitsFrom(b, s), IntDigitsTo(b, s))

\* b holds i -? digit+ e at offset s
IsIntShape(b, s) ==
    /\ ByteIs(b, s, B_i)
    /\ IntDigitsTo(b, s) > IntDigitsFrom(b, s)
    /\ ByteIs(b, IntDigitsTo(b, s), B_e)

IntRunHasLeadingZero(b, s) ==
    /\ IntDigitsTo(b, s) - IntDigitsFrom(b, s) > 1
    /\ At(b, IntDigitsFrom(b, s)) = B_0

\* b holds i -? (0 | [1-9][0-9]*) e at offset s
IsValidIntText(b, s) == IsIntShape(b, s) /\ ~IntRunHasLeadingZero(b, s)

IntTextLen(b, s) == IntDigitsTo(b, s) + 1 - s

\* the magnitude ds, negated when neg, lies in the i32 range
FitsI32(neg, ds) ==
    ~BigGt(BigNorm(ds), IF neg THEN <<2,1,4,7,4,8,3,6,4,8>>
                               ELSE <<2,1,4,7,4,8,3,6,4,7>>)

\* minus the magnitude ds, for ds <= 2^31
RECURSIVE NegValue(_)
NegValue(ds) ==
    IF ds = <<>> THEN 0
    ELSE NegValue(SubSeq(ds, 1, Len(ds) - 1)) * 10 - ds[Len(ds)]

I32Value(neg, ds) == IF neg THEN NegValue(ds) ELSE -NegValue(ds)

IntDone == pc = "int_done"
IsErr(r, k) == r.tag = "Err" /\ r.kind = k

\* C1: an integer text whose digit run is longer than one character and
\* starts with '0' (signed or not) fails with LeadingZero; i0e is Int(0)
\* consuming 3 bytes.
C1_LeadingZeroRejected ==
    IntDone =>
        /\ (IsIntShape(buf, start_pos) /\ IntRunHasLeadingZero(buf, start_pos))
              => IsErr(result, "LeadingZero")
        /\ (ByteIs(buf, start_pos, B_i) /\ ByteIs(buf, start_pos + 1, B_0)
               /\ ByteIs(buf, start_pos + 2, B_e))
              => result = Ok(0, 3)

\* offsets after start_pos + 1, inside the text decode_int consumed, that
\* hold a '-'
LateDashes(b, s, n) == {p \in (s + 2)..(s + n - 1) : At(b, p) = B_minus}

\* C3: a '-' is accepted only directly after the opening 'i': a second '-'
\* fails with InvalidToken at its offset, and no text with a '-' anywhere
\* else is decoded successfully.
C3_SignOnlyAfterStart ==
    (IntDone /\ ByteIs(buf, start_pos, B_i)) =>
        /\ (ByteIs(buf, start_pos + 1, B_minus)
               /\ ByteIs(buf, start_pos + 2, B_minus))
              => result = ErrTok(start_pos + 2, B_minus)
        /\ result.tag = "Ok"
              => LateDashes(buf, start_pos, result.consumed) = {}

\* C4: reaching the closing 'e' with no digit scanned (ie, i-e) fails with
\* Empty and returns no value.
C4_EmptyMagnitudeRejected ==
    (IntDone /\ ByteIs(buf, start_pos, B_i)
        /\ ByteIs(buf, IntDigitsFrom(buf, start_pos), B_e))
        => IsErr(result, "Empty")

\* C5: a grammar-valid integer text at start_pos whose value fits i32
\* (i32::MIN included) decodes to exactly that value, and the consumed
\* count is the length of the text with both sigils.
C5_ValidIntDecoded ==
    (IntDone /\ IsValidIntText(buf, start_pos)
        /\ FitsI32(IntNeg(buf, start_pos), IntDigits(buf, start_pos)))
        => result = Ok(I32Value(IntNeg(buf, start_pos),
                                IntDigits(buf, start_pos)),
                       IntTextLen(buf, start_pos))

StrDigitsTo(b, s) == DigitRunEnd(b, s)
StrDigits(b, s) == DigitsOf(b, s, StrDigitsTo(b, s))

\* b holds digit+ ':' at offset s
HasLengthPrefix(b, s) ==
    /\ StrDigitsTo(b, s) > s
    /\ ByteIs(b, StrDigitsTo(b, s), B_colon)

PrefixHasLeadingZero(b, s) == StrDigitsTo(b, s) - s > 1 /\ At(b, s) = B_0

\* b holds (0 | [1-9][0-9]*) ':' at offset s
HasValidLengthPrefix(b, s) ==
    HasLengthPrefix(b, s) /\ ~PrefixHasLeadingZero(b, s)

\* offset of the first byte after the colon, and the bytes from there on
PayloadStart(b, s) == StrDigitsTo(b, s) + 1
Remaining(b, s) == Len(b) - PayloadStart(b, s)

\* the declared length against the bytes that remain
DeclaredExceeds(b, s) ==
    \/ Len(StrDigits(b, s)) > 9
    \/ BigToInt(StrDigits(b, s)) > Remaining(b, s)
DeclaredEquals(b, s) ==
    /\ Len(StrDigits(b, s)) <= 9
    /\ BigToInt(StrDigits(b, s)) = Remaining(b, s)

StrDone == pc = "str_done"

\* C2: a length prefix of two or more digits starting with '0' is rejected
\* with an error; "0:" alone is the empty byte string, consuming 2 bytes.
C2_PrefixLeadingZeroRejected ==
    StrDone =>
        /\ (HasLengthPrefix(buf, start_pos)
               /\ PrefixHasLeadingZero(buf, start_pos))
              => result.tag = "Err"
        /\ (ByteIs(buf, start_pos, B_0) /\ ByteIs(buf, start_pos + 1, B_colon))
              => result = Ok(<<>>, 2)

\* C6: with a grammar-valid length prefix len and at least len bytes after
\* the colon, decode_bytestr returns exactly those len bytes, verbatim, and
\* consumes (number of length digits) + 1 + len bytes.
C6_PayloadVerbatim ==
    (StrDone /\ HasValidLengthPrefix(buf, start_pos)
        /\ ~DeclaredExceeds(buf, start_pos))
        => LET n == BigToInt(StrDigits(buf, start_pos))
               from == PayloadStart(buf, start_pos)
           IN result = Ok([k \in 1..n |-> At(buf, from + k - 1)],
                          (StrDigitsTo(buf, start_pos) - start_pos) + 1 + n)

\* C6 witness: a payload of two or more bytes holding a non-text byte,
\* decoded at a non-zero start offset with bytes left over after it
C6_Witness ==
    /\ StrDone
    /\ start_pos > 0
    /\ HasValidLengthPrefix(buf, start_pos)
    /\ ~DeclaredExceeds(buf, start_pos)
    /\ BigToInt(StrDigits(buf, start_pos)) >= 2
    /\ BigToInt(StrDigits(buf, start_pos)) < Remaining(buf, start_pos)
    /\ result.tag = "Ok"
    /\ \E k \in 1..Len(result.value) : result.value[k] = B_AA

\* C7: a declared length greater than the bytes remaining after the colon
\* fails with ByteStrEOF at the offset of the first byte after the colon;
\* a declared length equal to the remaining bytes succeeds.
C7_TruncatedPayload ==
    (StrDone /\ HasValidLengthPrefix(buf, start_pos)) =>
        /\ DeclaredExceeds(buf, start_pos)
              => result = Err("ByteStrEOF", PayloadStart(buf, start_pos))
        /\ DeclaredEquals(buf, start_pos) => result.tag = "Ok"

\* C8: decode ends in Ok or Err, never in a panic (out-of-bounds index,
\* unwrap of an empty stack, overflow of the integer or length arithmetic).
C8_NoPanic == result.tag # "Panic"

\* C9: every iteration of the scan loop either strictly increases the
\* cursor (by 1 for l, d, e; by the leaf's consumed count, at least 2, for
\* an integer or byte string) without passing the end of the buffer, or
\* returns an error; so at most len(buffer) iterations run.
C9_Progress ==
    [][Scanning =>
          \/ /\ pc' = "scan"
             /\ pos' <= Len(buf)
             /\ iters' = iters + 1
             /\ iters' <= Len(buf)
             /\ IF At(buf, pos) \in {B_l, B_d, B_e}
                THEN pos' = pos + 1
                ELSE pos' >= pos + 2
          \/ /\ pc' = "done"
             /\ result'.tag = "Err"]_vars

RootAtBottomOnly(st) ==
    /\ st # <<>>
    /\ st[1].stype = "Root"
    /\ \A k \in 2..Len(st) : st[k].stype \in {"List", "Dict"}

\* C10: while the scan loop runs the scope stack is non-empty with Root as
\* its bottom frame and nowhere else; an iteration removes the Root frame
\* only on an 'e' with no list or dict open, and then decode returns
\* InvalidEndToken at once and the stack is not touched again.
C10_RootFrame ==
    /\ [](pc = "scan" => RootAtBottomOnly(stack))
    /\ [][(Scanning /\ ~RootAtBottomOnly(stack'))
             => /\ At(buf, pos) = B_e
                /\ Len(stack) = 1
                /\ pc' = "done"
                /\ result' = Err("InvalidEndToken", pos)]_vars
    /\ [][pc = "done" => stack' = stack]_vars

\* C10 witness: decode has returned InvalidEndToken for an 'e' met after a
\* list was opened and closed, with the Root frame popped
C10_Witness ==
    /\ pc = "done"
    /\ result.tag = "Err"
    /\ result.kind = "InvalidEndToken"
    /\ result.off > 0
    /\ iters >= 2
    /\ stack = <<>>

\* the byte at the cursor of a running scan loop
AtCursor(c) == Scanning /\ At(buf, pos) = c

\* C11: an 'e' read while only the Root frame is on the stack makes decode
\* fail with InvalidEndToken at the offset of that 'e', whatever was
\* accumulated at top level; decode("e") fails with InvalidEndToken(0).
C11_StrayEnd ==
    [][(AtCursor(B_e) /\ Len(stack) = 1)
          => /\ pc' = "done"
             /\ result' = Err("InvalidEndToken", pos)
             /\ pos' = pos]_vars

\* C11 witness: InvalidEndToken for an 'e' that follows a complete
\* top-level integer
C11_Witness ==
    /\ pc = "done"
    /\ result = Err("InvalidEndToken", pos)
    /\ pos >= 3
    /\ iters = 1
    /\ ByteIs(buf, 0, B_i)
    /\ ByteIs(buf, pos, B_e)

\* C12: decode returns Ok exactly when the scan reaches the end of the
\* buffer without error and only the Root frame remains; with a list or
\* dict frame still open at the end it fails with NoEndToken at offset
\* len(buffer).
C12_OkIffOnlyRootAtEnd ==
    /\ [][(pc = "scan" /\ pos >= Len(buf))
             => /\ pc' = "done"
                /\ Len(stack) = 1 => result'.tag = "Ok"
                /\ Len(stack) > 1 => result' = Err("NoEndToken", Len(buf))]_vars
    /\ [][(result.tag # "Ok" /\ result'.tag = "Ok")
             => /\ pc = "scan"
                /\ pos = Len(buf)
                /\ Len(stack) = 1
                /\ stack[1].stype = "Root"]_vars

\* C12 witness: d3:heyi69e has ended in NoEndToken(10) with the Dict frame
\* still open
C12_Witness ==
    /\ pc = "done"
    /\ result = Err("NoEndToken", 10)
    /\ Len(buf) = 10
    /\ Len(stack) = 2
    /\ stack[2].stype = "Dict"
    /\ Len(stack[2].items) = 2

\* the frames below the top one
Below(st) == SubSeq(st, 1, Len(st) - 1)

TopIs(stype) == stack # <<>> /\ stack[Len(stack)].stype = stype

\* C13: an 'e' that closes a Dict frame with an odd number of items fails
\* with InvalidDict at the offset of that 'e' and appends nothing to the
\* parent frame; with an even number (zero included) the close succeeds
\* and appends exactly one Dict value to the parent frame.
C13_DictParity ==
    [][(AtCursor(B_e) /\ TopIs("Dict"))
          => IF Len(stack[Len(stack)].items) % 2 = 1
             THEN /\ pc' = "done"
                  /\ result' = Err("InvalidDict", pos)
                  /\ stack' = Below(stack)
             ELSE /\ pc' = "scan"
                  /\ result' = result
                  /\ Len(stack') = Len(stack) - 1
                  /\ Below(stack') = Below(Below(stack))
                  /\ LET parent == stack[Len(stack) - 1]
                         parent2 == stack'[Len(stack')]
                     IN /\ parent2.stype = parent.stype
                        /\ Len(parent2.items) = Len(parent.items) + 1
                        /\ SubSeq(parent2.items, 1, Len(parent.items))
                              = parent.items
                        /\ parent2.items[Len(parent2.items)].t = "Dict"]_vars

\* C13 witness: a dict with one key and no value was closed inside a list
\* that already held an item
C13_Witness ==
    /\ pc = "done"
    /\ result = Err("InvalidDict", pos)
    /\ Len(stack) = 2
    /\ stack[2].stype = "List"
    /\ Len(stack[2].items) = 1

\* the items of the scope on top of the stack
TopItems == stack[Len(stack)].items

\* the value most recently appended to the frame on top of st
LastItem(st) == st[Len(st)].items[Len(st[Len(st)].items)]

\* a scan step that closes a Dict frame holding an even number of items
ClosesPairedDict ==
    AtCursor(B_e) /\ TopIs("Dict") /\ Len(TopItems) % 2 = 0

\* positions 1..n of the key/value pairs of items: pair j is
\* (items[2j - 1], items[2j])
Pairs(items) == 1..(Len(items) \div 2)
StrPairs(items) == {j \in Pairs(items) : items[2 * j - 1].t = "ByteStr"}
StrKeys(items) == {items[2 * j - 1].v : j \in StrPairs(items)}

\* the last pair in source order that carries the byte-string key
LastPairWith(items, key) ==
    CHOOSE j \in StrPairs(items) :
        /\ items[2 * j - 1].v = key
        /\ \A j2 \in StrPairs(items) : items[2 * j2 - 1].v = key => j2 <= j

\* two values of the same kind with the same content
SameValue(a, b) == a.t = b.t /\ a.v = b.v

\* C14: closing a Dict frame with an even number of items pairs them by
\* position, and the mapping holds for each byte-string key the value of
\* the last pair in source order with that key, whatever the key order.
C14_LastWriteWins ==
    [][ClosesPairedDict
          => /\ pc' = "scan"
             /\ \A key \in StrKeys(TopItems) :
                   /\ key \in DOMAIN LastItem(stack').v
                   /\ SameValue(LastItem(stack').v[key],
                                TopItems[2 * LastPairWith(TopItems, key)])]_vars

\* C14 witness: d1:1i1e1:0i1e1:11:0e has decoded to a dict in which key
\* "1" holds its second value and key "0", met after "1", holds Int(1)
C14_Witness ==
    /\ pc = "done"
    /\ Len(buf) = 20
    /\ result.tag = "Ok"
    /\ Len(result.values) = 1
    /\ result.values[1].t = "Dict"
    /\ DOMAIN result.values[1].v = {<<B_1>>, <<B_0>>}
    /\ result.values[1].v[<<B_1>>] = VByteStr(<<B_0>>)
    /\ result.values[1].v[<<B_0>>] = VInt(1)

\* C15: when a Dict frame is closed, the pairs whose key item is not a
\* ByteStr are dropped without any error and the other pairs are kept;
\* di1ei2ee decodes to an empty Dict.
C15_NonStringKeysDropped ==
    [][ClosesPairedDict
          => /\ pc' = "scan"
             /\ result' = result
             /\ LastItem(stack').t = "Dict"
             /\ DOMAIN LastItem(stack').v = StrKeys(TopItems)]_vars

\* C15 witness: di1ei2ee has decoded to one empty Dict
C15_Witness ==
    /\ pc = "done"
    /\ buf = <<B_d, B_i, B_1, B_e, B_i, B_2, B_e, B_e>>
    /\ result = OkValues(<<VDict(EmptyMap)>>)

\* n lists inside one another, the innermost empty
RECURSIVE Nest(_)
Nest(n) ==
    IF n = 1 THEN [t |-> "List", v |-> <<>>]
    ELSE [t |-> "List", v |-> <<Nest(n - 1)>>]

\* buf is n times 'l' followed by n times 'e'
IsNestOf(n) ==
    /\ Len(buf) = 2 * n
    /\ \A k \in 1..n : buf[k] = B_l /\ buf[n + k] = B_e

\* C16: closing a List frame appends to the new top frame exactly one List
\* value holding the frame's items in source order and leaves the items the
\* parent already had unchanged; the nesting of the result mirrors the
\* nesting of the l...e pairs.
C16_ListClose ==
    /\ [][(AtCursor(B_e) /\ TopIs("List"))
             => /\ pc' = "scan"
                /\ result' = result
                /\ Len(stack') = Len(stack) - 1
                /\ Below(stack') = Below(Below(stack))
                /\ stack'[Len(stack')].stype = stack[Len(stack) - 1].stype
                /\ stack'[Len(stack')].items
                      = Append(stack[Len(stack) - 1].items,
                               [t |-> "List", v |-> TopItems])]_vars
    /\ [](\A n \in 1..MaxTokens :
             (pc = "done" /\ IsNestOf(n)) => result = OkValues(<<Nest(n)>>))

\* C16 witness: llleee has decoded to three nested lists
C16_Witness ==
    /\ pc = "done"
    /\ IsNestOf(3)
    /\ result.tag = "Ok"
    /\ result.values[1].v[1].v[1] = [t |-> "List", v |-> <<>>]

\* the value tree read off the buffer by recursive descent
RefMap(items) ==
    [key \in StrKeys(items) |-> items[2 * LastPairWith(items, key)]]

RefFail == [ok |-> FALSE, items |-> <<>>, p |-> 0]

RECURSIVE RefSeq(_, _), RefValue(_, _)
\* the values from offset p up to the next unmatched 'e' or the end
RefSeq(b, p) ==
    IF p >= Len(b) \/ At(b, p) = B_e
    THEN [ok |-> TRUE, items |-> <<>>, p |-> p]
    ELSE LET v == RefValue(b, p) IN
         IF ~v.ok THEN RefFail
         ELSE LET r == RefSeq(b, v.p) IN
              IF ~r.ok THEN RefFail
              ELSE [ok |-> TRUE, items |-> v.items \o r.items, p |-> r.p]

\* the one value that starts at offset p < Len(b), as a one-item sequence
RefValue(b, p) ==
    LET c == At(b, p) IN
    CASE c = B_l ->
           LET r == RefSeq(b, p + 1) IN
           IF r.ok /\ ByteIs(b, r.p, B_e)
           THEN [ok |-> TRUE, items |-> <<[t |-> "List", v |-> r.items]>>,
                 p |-> r.p + 1]
           ELSE RefFail
      [] c = B_d ->
           LET r == RefSeq(b, p + 1) IN
           IF r.ok /\ ByteIs(b, r.p, B_e) /\ Len(r.items) % 2 = 0
           THEN [ok |-> TRUE,
                 items |-> <<[t |-> "Dict", v |-> RefMap(r.items)]>>,
                 p |-> r.p + 1]
           ELSE RefFail
      [] c = B_i ->
           LET r == decode_int(b, p) IN
           IF r.tag = "Ok"
           THEN [ok |-> TRUE, items |-> <<[t |-> "Int", v |-> r.value]>>,
                 p |-> p + r.consumed]
           ELSE RefFail
      [] IsDigit(c) ->
           LET r == decode_bytestr(b, p) IN
           IF r.tag = "Ok"
           THEN [ok |-> TRUE, items |-> <<[t |-> "ByteStr", v |-> r.value]>>,
                 p |-> p + r.consumed]
           ELSE RefFail
      [] OTHER -> RefFail

\* C17: on success decode returns the Root frame's items, that is all the
\* top-level values of the buffer in source order: none for the empty
\* buffer, several for values placed back to back.
C17_TopLevelSequence ==
    pc = "done" =>
        LET r == RefSeq(buf, 0) IN
        /\ result.tag = "Ok" <=> (r.ok /\ r.p = Len(buf))
        /\ result.tag = "Ok" => result.values = r.items
        /\ buf = <<>> => result = OkValues(<<>>)

\* C17 witness: 5:admin0:3:hey10:abcdefghij has decoded to four byte
\* strings, the second one empty
C17_Witness ==
    /\ pc = "done"
    /\ Len(buf) = 27
    /\ result.tag = "Ok"
    /\ Len(result.values) = 4
    /\ \A k \in 1..4 : result.values[k].t = "ByteStr"
    /\ result.values[2].v = <<>>
    /\ Len(result.values[4].v) = 10

\* the bytes decode_int scans over without stopping, once past the 'i'
IsIntBody(c) == IsDigit(c) \/ c = B_minus

\* first offset from p on whose byte is not a digit or '-' (or the length)
RECURSIVE IntBodyEnd(_, _)
IntBodyEnd(b, p) ==
    IF p < Len(b) /\ IsIntBody(At(b, p)) THEN IntBodyEnd(b, p + 1) ELSE p

\* the integer at offset s is 'i' followed by at most nine digits, the
\* first of them not '0', so that only the byte after the run can stop
\* the scan
PlainDigitRun(b, s) ==
    /\ DigitRunEnd(b, s + 1) - (s + 1) <= 9
    /\ ~ByteIs(b, s + 1, B_0)

\* C18: an error from scanning an integer carries the absolute buffer
\* offset of the byte where the scan stopped, also for an integer that
\* starts at a non-zero offset inside decode: DuplicateStartToken at the
\* second 'i', InvalidToken with the offending byte at the first byte
\* outside {0-9, -, i, e}, NoEndToken at len(buffer) when the buffer ends
\* before 'e'.
C18_IntErrorOffsets ==
    [][AtCursor(B_i) =>
          /\ result'.tag = "Err" =>
                /\ pc' = "done"
                /\ result'.off > pos
                /\ result'.off <= IntBodyEnd(buf, pos + 1)
                /\ result'.kind = "DuplicateStartToken" =>
                      /\ result'.off = IntBodyEnd(buf, pos + 1)
                      /\ ByteIs(buf, result'.off, B_i)
                /\ result'.kind = "NoEndToken" =>
                      /\ result'.off = IntBodyEnd(buf, pos + 1)
                      /\ result'.off = Len(buf)
                /\ result'.kind = "InvalidToken" =>
                      /\ result'.off < Len(buf)
                      /\ result'.ch = At(buf, result'.off)
                      /\ \/ result'.ch = B_minus
                         \/ /\ result'.off = IntBodyEnd(buf, pos + 1)
                            /\ result'.ch \notin {B_i, B_e}
          /\ PlainDigitRun(buf, pos) =>
                LET q == DigitRunEnd(buf, pos + 1) IN
                /\ q = Len(buf) => result' = Err("NoEndToken", q)
                /\ ByteIs(buf, q, B_i)
                      => result' = Err("DuplicateStartToken", q)
                /\ (q < Len(buf) /\ ~IsIntBody(At(buf, q))
                       /\ At(buf, q) \notin {B_i, B_e})
                      => result' = ErrTok(q, At(buf, q))]_vars

\* C18 witness: an integer that starts at offset 2 or later has failed
\* with DuplicateStartToken at its second 'i', one digit after the first (0:i1i)
C18_Witness ==
    /\ pc = "done"
    /\ pos >= 2
    /\ ByteIs(buf, pos, B_i)
    /\ pos + 1 < Len(buf)
    /\ IsDigit(At(buf, pos + 1))
    /\ result = Err("DuplicateStartToken", pos + 2)

\* the digits ds accumulated as the source does, modulo 2^32
RECURSIVE WrappedMagnitude(_)
WrappedMagnitude(ds) ==
    IF ds = <<>> THEN 0
    ELSE I32MulAddWrapped(WrappedMagnitude(SubSeq(ds, 1, Len(ds) - 1)),
                          ds[Len(ds)])

WrappedI32(neg, ds) ==
    I32MulSignWrapped(WrappedMagnitude(ds), IF neg THEN -1 ELSE 1)

\* C19: for digits whose magnitude exceeds i32, decode_int reports no
\* error: it returns the value wrapped modulo 2^32 and the consumed count
\* is the full length of the text.
C19_SilentWraparound ==
    (IntDone /\ IsValidIntText(buf, start_pos)
        /\ ~FitsI32(IntNeg(buf, start_pos), IntDigits(buf, start_pos)))
        => result = Ok(WrappedI32(IntNeg(buf, start_pos),
                                  IntDigits(buf, start_pos)),
                       IntTextLen(buf, start_pos))

\* the byte at the cursor starts no value and closes no scope
StrayByte(c) == c \notin {B_i, B_l, B_d, B_e} /\ ~IsDigit(c)

\* C20: a byte at the cursor that is none of 'i', '0'-'9', 'l', 'd', 'e'
\* makes decode fail at once with InvalidToken carrying that byte and the
\* cursor offset, at any stack depth, with no partial result.
C20_StrayByte ==
    [][(Scanning /\ StrayByte(At(buf, pos)))
          => /\ pc' = "done"
             /\ result' = ErrTok(pos, At(buf, pos))
             /\ pos' = pos
             /\ stack' = stack]_vars

\* C20 witness: a '-' at a value position, three scopes deep, has ended
\* decode in InvalidToken at the cursor
C20_Witness ==
    /\ pc = "done"
    /\ ByteIs(buf, pos, B_minus)
    /\ Len(stack) = 4
    /\ result = ErrTok(pos, B_minus)

====
